---- MODULE Spec2Model ----
(***************************************************************************)
(* Poly1305 one-time authenticator: the Go hash.Hash wrapper (New, Write,  *)
(* Sum, Reset, BlockSize, Size) around the poly1305_init / _update /       *)
(* _finish arithmetic core.                                                *)
(*                                                                         *)
(* Byte strings are sequences of naturals below 256.  Big naturals are     *)
(* little-endian sequences of base-256 limbs; a limb vector that has not   *)
(* been carried yet may hold limbs above 255.                              *)
(***************************************************************************)
EXTENDS Integers, Sequences, FiniteSets, TLC

KeySize == 32
BlockSize == 16
Size == 16

\* Longest message (bytes written since construction or Reset) the model explores.
MaxWritten == 32
\* The same where two hashes are explored together.
MaxWrittenTwo == 20

Inst == {1, 2}

(***************************************************************************)
(* Limb arithmetic                                                         *)
(***************************************************************************)
\* The function f on 1..n as a sequence.
Vec(f, n) == SubSeq(f, 1, n)

Zeros(n) == Vec([j \in 1..n |-> 0], n)

RECURSIVE Carried(_, _, _, _)
\* Carries x from limb j on, with carry c coming in; the top limb keeps what is left.
Carried(x, j, c, out) ==
    IF j > Len(x) THEN out
    ELSE LET t == x[j] + c
         IN  IF j = Len(x) THEN Append(out, t)
             ELSE Carried(x, j + 1, t \div 256, Append(out, t % 256))

\* x with every limb but the top one brought below 256, value unchanged.
Carry(x) == Carried(x, 1, 0, <<>>)

\* a + b on n limbs.
AddLimbs(a, b, n) ==
    Carry(Vec([j \in 1..n |-> (IF j <= Len(a) THEN a[j] ELSE 0)
                            + (IF j <= Len(b) THEN b[j] ELSE 0)], n))

RECURSIVE Column(_, _, _, _)
\* The sum of a[i] * b[k + 1 - i] for i in i..Len(a): column k of the product.
Column(a, b, k, i) ==
    IF i > Len(a) THEN 0
    ELSE (IF k + 1 - i >= 1 /\ k + 1 - i <= Len(b) THEN a[i] * b[k + 1 - i] ELSE 0)
         + Column(a, b, k, i + 1)

\* a * b on Len(a) + Len(b) limbs (schoolbook).
MulLimbs(a, b) ==
    Carry(Vec([k \in 1..(Len(a) + Len(b)) |-> Column(a, b, k, 1)], Len(a) + Len(b)))

\* Limb j of x div 2^130, for x of at least 17 limbs.
HiLimb(x, j) ==
    (IF 16 + j <= Len(x) THEN x[16 + j] \div 4 ELSE 0)
    + (IF 17 + j <= Len(x) THEN (x[17 + j] % 4) * 64 ELSE 0)

\* One folding step modulo 2^130 - 5: (x mod 2^130) + 5 * (x div 2^130), on 17 limbs.
Fold(x) ==
    Carry(Vec([j \in 1..17 |-> (IF j <= 16 THEN x[j] ELSE x[17] % 4) + 5 * HiLimb(x, j)], 17))

\* A reduction of one folding step.
ReduceOnce(x) == Fold(x)

\* x (a product of a 17-limb and a 16-limb number) brought below 2^130,
\* congruent to x modulo 2^130 - 5.
Reduce(x) == Fold(Fold(x))

\* TRUE iff the 17-limb number x is below 2^130.
Below2p130(x) == Len(x) = 17 /\ x[17] <= 3 /\ \A j \in 1..16 : x[j] <= 255

\* x - (2^130 - 5) when the 17-limb x < 2^130 is at least 2^130 - 5, else x.
Canonical(x) ==
    LET g == AddLimbs(x, <<5>>, 17)
    IN  IF g[17] >= 4 THEN [g EXCEPT ![17] = g[17] - 4] ELSE x

(***************************************************************************)
(* The arithmetic core (poly1305_init, poly1305_update, poly1305_finish)   *)
(***************************************************************************)
\* Byte j (1-based) of r after clamping: the top 4 bits of bytes 3, 7, 11, 15 and
\* the bottom 2 bits of bytes 4, 8, 12 (0-based) are cleared.
ClampByte(j, b) ==
    IF j \in {4, 8, 12, 16} THEN b % 16
    ELSE IF j \in {5, 9, 13} THEN b - (b % 4)
    ELSE b

\* The engine state after initialization with a 32-byte key: r is the clamped
\* first half, pad (s) the second half, the accumulator h is 0, nothing is buffered.
poly1305_init(key) ==
    [r      |-> Vec([j \in 1..16 |-> ClampByte(j, key[j])], 16),
     pad    |-> SubSeq(key, 17, 32),
     h      |-> Zeros(17),
     buffer |-> <<>>]

\* A block of L <= 16 bytes as a number: its little-endian value plus 2^(8L).
BlockValue(m) ==
    Vec([j \in 1..17 |-> IF j <= Len(m) THEN m[j] ELSE IF j = Len(m) + 1 THEN 1 ELSE 0], 17)

\* One absorption step: h = (h + block) * r, reduced below 2^130.
poly1305_blocks(h, r, m) == Reduce(MulLimbs(AddLimbs(h, BlockValue(m), 17), r))

RECURSIVE AbsorbAll(_, _, _)
\* Absorbs every complete 16-byte block of data; returns the accumulator and
\* the fewer than 16 bytes left over.
AbsorbAll(h, r, data) ==
    IF Len(data) < BlockSize THEN [h |-> h, rest |-> data]
    ELSE AbsorbAll(poly1305_blocks(h, r, SubSeq(data, 1, BlockSize)), r,
                   SubSeq(data, BlockSize + 1, Len(data)))

\* poly1305_update(st, m, bytes): appends the first `bytes` bytes of m to the
\* buffer and absorbs complete blocks until fewer than 16 bytes remain buffered.
poly1305_update(st, m, bytes) ==
    LET a == AbsorbAll(st.h, st.r, st.buffer \o SubSeq(m, 1, bytes))
    IN  [st EXCEPT !.h = a.h, !.buffer = a.rest]

\* The accumulator finalization works on: the live one, with the buffered
\* partial block (if any) absorbed in its padded form.
FinalAcc(st) ==
    IF Len(st.buffer) > 0 THEN poly1305_blocks(st.h, st.r, st.buffer) ELSE st.h

\* What poly1305_finish may leave in the state it is handed.  The wrapper passes
\* a pointer to the live state and makes no copy of its own, so this is the
\* core's choice:
\*   "copy"    it finalizes a copy of its own, the state is as before;
\*   "inplace" it finalizes the state itself: the buffered partial block is
\*             absorbed into h and consumed, and h is fully reduced;
\*   "wiped"   it finalizes the state itself and then erases it (h, r, pad, buffer).
FinishOutcomes == {"copy", "inplace", "wiped"}

\* The state poly1305_finish leaves, for each of the outcomes.
Finished(st, how) ==
    IF how = "copy" THEN st
    ELSE IF how = "inplace" THEN [st EXCEPT !.h = Canonical(FinalAcc(st)), !.buffer = <<>>]
    ELSE [r |-> Zeros(16), pad |-> Zeros(16), h |-> Zeros(17), buffer |-> <<>>]

\* poly1305_finish(st, mac): the tag, the low 128 bits of (h mod 2^130-5) + pad,
\* h being the accumulator with the buffered partial block absorbed; and the
\* state it leaves behind.
poly1305_finish(st, how) ==
    [state |-> Finished(st, how),
     mac   |-> SubSeq(AddLimbs(SubSeq(Canonical(FinalAcc(st)), 1, 16), st.pad, 17), 1, 16)]

(***************************************************************************)
(* Inputs                                                                  *)
(***************************************************************************)
\* "this is 32-byte key for Poly1305", the key of both test vectors.
TestKey == <<116, 104, 105, 115, 32, 105, 115, 32, 51, 50, 45, 98, 121, 116, 101, 32,
             107, 101, 121, 32, 102, 111, 114, 32, 80, 111, 108, 121, 49, 51, 48, 53>>
\* A key of 32 bytes 0xa5: with it the first folding step of an absorption
\* leaves a value of 2^130 or more, and adding s wraps around 2^128.
A5Key == Vec([j \in 1..KeySize |-> 165], KeySize)
GoodKeys == {TestKey, A5Key}
\* Keys of the lengths 0, 16, 31, 33 and 64.
BadKeys == {<<>>, SubSeq(TestKey, 1, 16), SubSeq(TestKey, 1, 31),
            Append(TestKey, 1), TestKey \o A5Key}
Keys == GoodKeys \cup BadKeys

\* "Hello world!", the message of the second test vector.
Hello == <<72, 101, 108, 108, 111, 32, 119, 111, 114, 108, 100, 33>>
\* 32 zero bytes, the message of the first test vector, and its first half.
Zero32 == Zeros(32)
Zero16 == Zeros(16)
Chunks == {<<>>, Hello, Zero16, Zero32}
\* Twenty bytes: one complete block and four bytes more.
Hello20 == Hello \o SubSeq(Hello, 1, 8)

\* The slices a caller hands to Sum: nil, shorter than a tag, a tag long.
Prefixes == {<<>>, <<1, 2, 3>>, Vec([j \in 1..16 |-> 200 + j], 16)}

\* The tags of the two test vectors.
Tag1 == <<73, 236, 120, 9, 14, 72, 30, 198, 194, 107, 51, 185, 28, 204, 3, 7>>
Tag2 == <<166, 247, 69, 0, 143, 129, 201, 22, 162, 13, 204, 116, 238, 242, 178, 240>>

(***************************************************************************)
(* State                                                                   *)
(***************************************************************************)
VARIABLES
    impl,       \* which of the two implementations is built: "poly1305" or "Poly1305"
    h,          \* h[i]: the hash held by the caller's variable i (nil, or key and state)
    callerKey,  \* callerKey[i]: the caller's slice that was passed to New, as it is now
    newKey,     \* history: the bytes the key slice held when New was called
    written,    \* history: the bytes written to h[i] since New or the last Reset
    sumAt,      \* history: Len(written[i]) at the first Sum since New or Reset, -1 if none
    wasReset,   \* history: h[i] has been Reset since New
    ret         \* what the last call got and returned; pre: the bytes buffered before
                \* it; first: it is the first Sum since New or Reset

vars == <<impl, h, callerKey, newKey, written, sumAt, wasReset, ret>>

NilHash == [isnil |-> TRUE, key |-> <<>>,
            state |-> [r |-> <<>>, pad |-> <<>>, h |-> <<>>, buffer |-> <<>>]]

NoRet == [op |-> "none", inst |-> 0, arg |-> <<>>, out |-> <<>>, n |-> 0,
          err |-> "nil", pre |-> 0, first |-> FALSE]

Init ==
    /\ impl \in {"poly1305", "Poly1305"}
    /\ h = [i \in Inst |-> NilHash]
    /\ callerKey = [i \in Inst |-> <<>>]
    /\ newKey = [i \in Inst |-> <<>>]
    /\ written = [i \in Inst |-> <<>>]
    /\ sumAt = [i \in Inst |-> -1]
    /\ wasReset = [i \in Inst |-> FALSE]
    /\ ret = NoRet

(***************************************************************************)
(* The wrapper                                                             *)
(***************************************************************************)
\* A copy of the first half of the key only.
CopyKeyHalf(key) ==
    Vec([j \in 1..KeySize |-> IF j <= Len(key) /\ j <= 16 THEN key[j] ELSE 0], KeySize)

\* h.key = make([]byte, KeySize); copy(h.key, key): KeySize zero bytes
\* overwritten by as many bytes of key as fit.
CopyKey(key) == Vec([j \in 1..KeySize |-> IF j <= Len(key) THEN key[j] ELSE 0], KeySize)

\* A New that refuses only the keys that are too short.
NewShortCheck(i, key) ==
    /\ IF Len(key) < KeySize
       THEN /\ h' = [h EXCEPT ![i] = NilHash]
            /\ newKey' = [newKey EXCEPT ![i] = <<>>]
            /\ ret' = [NoRet EXCEPT !.op = "New", !.inst = i, !.arg = key,
                                    !.err = "ErrInvalidKey"]
       ELSE /\ h' = [h EXCEPT ![i] = [isnil |-> FALSE, key |-> CopyKey(key),
                                      state |-> poly1305_init(CopyKey(key))]]
            /\ newKey' = [newKey EXCEPT ![i] = key]
            /\ ret' = [NoRet EXCEPT !.op = "New", !.inst = i, !.arg = key]
    /\ callerKey' = [callerKey EXCEPT ![i] = key]
    /\ written' = [written EXCEPT ![i] = <<>>]
    /\ sumAt' = [sumAt EXCEPT ![i] = -1]
    /\ wasReset' = [wasReset EXCEPT ![i] = FALSE]
    /\ UNCHANGED impl

\* New(key): ErrInvalidKey and a nil hash unless len(key) = KeySize; else a
\* hash holding its own copy of the key, Reset.
New(i, key) ==
    /\ IF Len(key) # KeySize
       THEN /\ h' = [h EXCEPT ![i] = NilHash]
            /\ newKey' = [newKey EXCEPT ![i] = <<>>]
            /\ ret' = [NoRet EXCEPT !.op = "New", !.inst = i, !.arg = key,
                                    !.err = "ErrInvalidKey"]
       ELSE /\ h' = [h EXCEPT ![i] = [isnil |-> FALSE, key |-> CopyKey(key),
                                      state |-> poly1305_init(CopyKey(key))]]
            /\ newKey' = [newKey EXCEPT ![i] = key]
            /\ ret' = [NoRet EXCEPT !.op = "New", !.inst = i, !.arg = key]
    /\ callerKey' = [callerKey EXCEPT ![i] = key]
    /\ written' = [written EXCEPT ![i] = <<>>]
    /\ sumAt' = [sumAt EXCEPT ![i] = -1]
    /\ wasReset' = [wasReset EXCEPT ![i] = FALSE]
    /\ UNCHANGED impl

\* The caller overwrites the slice it passed to New with other key bytes.
ModifyCallerKey(i, key) ==
    /\ ~h[i].isnil
    /\ key # callerKey[i]
    /\ callerKey' = [callerKey EXCEPT ![i] = key]
    /\ UNCHANGED <<impl, h, newKey, written, sumAt, wasReset, ret>>

\* A Reset of a hash that kept the caller's slice instead of a copy of it.
ResetFromCaller(i) ==
    /\ ~h[i].isnil
    /\ h' = [h EXCEPT ![i].key = CopyKey(callerKey[i]),
                      ![i].state = poly1305_init(CopyKey(callerKey[i]))]
    /\ written' = [written EXCEPT ![i] = <<>>]
    /\ sumAt' = [sumAt EXCEPT ![i] = -1]
    /\ wasReset' = [wasReset EXCEPT ![i] = TRUE]
    /\ ret' = [NoRet EXCEPT !.op = "Reset", !.inst = i, !.pre = Len(h[i].state.buffer)]
    /\ UNCHANGED <<impl, callerKey, newKey>>

\* Reset(): poly1305_init on the hash's own key.
Reset(i) ==
    /\ ~h[i].isnil
    /\ h' = [h EXCEPT ![i].state = poly1305_init(h[i].key)]
    /\ written' = [written EXCEPT ![i] = <<>>]
    /\ sumAt' = [sumAt EXCEPT ![i] = -1]
    /\ wasReset' = [wasReset EXCEPT ![i] = TRUE]
    /\ ret' = [NoRet EXCEPT !.op = "Reset", !.inst = i, !.pre = Len(h[i].state.buffer)]
    /\ UNCHANGED <<impl, callerKey, newKey>>

\* A Write that reports only the bytes that went into complete blocks.
WriteCallBlocksOnly(st, buf) ==
    [state |-> poly1305_update(st, buf, Len(buf)),
     n     |-> Len(buf) - ((Len(st.buffer) + Len(buf)) % BlockSize),
     err   |-> "nil"]

\* A Write that starts a new block at every call, dropping what was buffered.
WriteCallNewBlock(st, buf) ==
    [state |-> poly1305_update([st EXCEPT !.buffer = <<>>], buf, Len(buf)),
     n     |-> Len(buf),
     err   |-> "nil"]

\* Write(buf) on a hash in state st: poly1305_update with all len(buf) bytes
\* of buf; returns len(buf), nil.
WriteCall(st, buf) ==
    [state |-> poly1305_update(st, buf, Len(buf)),
     n     |-> Len(buf),
     err   |-> "nil"]

\* A Write into state that all hashes share.
WriteShared(i, buf) ==
    /\ ~h[i].isnil
    /\ Len(written[i]) + Len(buf) <= MaxWritten
    /\ h' = [k \in Inst |-> IF h[k].isnil THEN h[k]
                            ELSE [h[k] EXCEPT !.state = WriteCall(h[k].state, buf).state]]
    /\ written' = [written EXCEPT ![i] = written[i] \o buf]
    /\ ret' = [NoRet EXCEPT !.op = "Write", !.inst = i, !.arg = buf,
                            !.n = WriteCall(h[i].state, buf).n,
                            !.err = WriteCall(h[i].state, buf).err,
                            !.pre = Len(h[i].state.buffer)]
    /\ UNCHANGED <<impl, callerKey, newKey, sumAt, wasReset>>

Write(i, buf) ==
    /\ ~h[i].isnil
    /\ Len(written[i]) + Len(buf) <= MaxWritten
    /\ \E res \in {WriteCall(h[i].state, buf)} :
           /\ h' = [h EXCEPT ![i].state = res.state]
           /\ ret' = [NoRet EXCEPT !.op = "Write", !.inst = i, !.arg = buf,
                                   !.n = res.n, !.err = res.err,
                                   !.pre = Len(h[i].state.buffer)]
    /\ written' = [written EXCEPT ![i] = written[i] \o buf]
    /\ UNCHANGED <<impl, callerKey, newKey, sumAt, wasReset>>

\* (*poly1305).Sum(buf): finish, on the live state, into a fresh array; append
\* it to buf.
poly1305_Sum(st, buf, how) ==
    LET fin == poly1305_finish(st, how)
    IN  [state |-> fin.state, out |-> buf \o fin.mac]

\* (*Poly1305).Sum(buf): finish, on the live state, into the first Size bytes of
\* buf, or into a fresh array when buf is shorter; that array or slice is what
\* is returned.
Poly1305_Sum(st, buf, how) ==
    LET fin == poly1305_finish(st, how)
        dst == IF Len(buf) < Size THEN Zeros(Size) ELSE SubSeq(buf, 1, Size)
    IN  [state |-> fin.state,
         out   |-> Vec([j \in 1..Len(dst) |-> IF j <= Size THEN fin.mac[j] ELSE dst[j]],
                       Len(dst))]

\* The Sum of the implementation that is built.
SumCall(st, buf, how) ==
    IF impl = "poly1305" THEN poly1305_Sum(st, buf, how) ELSE Poly1305_Sum(st, buf, how)

\* The bytes Sum(buf) returns in state st (the same for every outcome of finish).
SumOut(st, buf) == SumCall(st, buf, "copy").out

Sum(i, buf) ==
    /\ ~h[i].isnil
    /\ \E how \in FinishOutcomes :
           \E res \in {SumCall(h[i].state, buf, how)} :
               /\ h' = [h EXCEPT ![i].state = res.state]
               /\ ret' = [NoRet EXCEPT !.op = "Sum", !.inst = i, !.arg = buf,
                                       !.out = res.out,
                                       !.pre = Len(h[i].state.buffer),
                                       !.first = (sumAt[i] = -1)]
    /\ sumAt' = [sumAt EXCEPT ![i] = IF sumAt[i] = -1 THEN Len(written[i]) ELSE sumAt[i]]
    /\ UNCHANGED <<impl, callerKey, newKey, written, wasReset>>

\* One caller, one hash.
Next ==
    \E i \in {1} :
        \/ \E key \in Keys : New(i, key)
        \/ \E key \in GoodKeys : ModifyCallerKey(i, key)
        \/ Reset(i)
        \/ \E buf \in Chunks : Write(i, buf)
        \/ \E buf \in Prefixes : Sum(i, buf)

Spec == Init /\ [][Next]_vars

\* Two hashes used in any interleaving, the first always keyed with TestKey,
\* the second with the same key or another.
NextTwo ==
    \E i \in Inst :
        \/ \E key \in (IF i = 1 THEN {TestKey} ELSE GoodKeys) : New(i, key)
        \/ Reset(i)
        \/ (Len(written[i]) + Len(Hello20) <= MaxWrittenTwo /\ Write(i, Hello20))
        \/ Sum(i, <<>>)

SpecTwo == Init /\ [][NextTwo]_vars

(***************************************************************************)
(* The reference tag                                                       *)
(***************************************************************************)
\* x mod (2^130 - 5), for x the product of a 17-limb and a 16-limb number.
ModP(x) == Canonical(Fold(Fold(x)))

RECURSIVE RefFold(_, _, _)
\* acc = (acc + block) * r mod (2^130 - 5) over the blocks of M: 16 bytes
\* each, the last one shorter when Len(M) is not a multiple of 16.
RefFold(acc, r, M) ==
    IF Len(M) = 0 THEN acc
    ELSE LET L == IF Len(M) >= 16 THEN 16 ELSE Len(M)
         IN  RefFold(ModP(MulLimbs(AddLimbs(acc, BlockValue(SubSeq(M, 1, L)), 17), r)),
                     r, SubSeq(M, L + 1, Len(M)))

\* The 16-byte little-endian encoding of (acc + s) mod 2^128.
RefTag(key, M) ==
    SubSeq(AddLimbs(SubSeq(RefFold(Zeros(17),
                                   Vec([j \in 1..16 |-> ClampByte(j, key[j])], 16), M), 1, 16),
                    SubSeq(key, 17, 32), 17), 1, 16)

\* New(key); Write(M); Sum(nil) on a hash of its own.
OneShot(key, M) == SumOut(WriteCall(poly1305_init(CopyKey(key)), M).state, <<>>)

(***************************************************************************)
(* Properties                                                              *)
(***************************************************************************)
\* C1: New(k) returns ErrInvalidKey and a nil hash when len(k) # 32, and a
\* usable hash and a nil error when len(k) = 32; the hash then holds exactly
\* the 32 bytes of k (nothing cut, nothing padded) and the state derived from them.
NewChecksKeyLength ==
    ret.op = "New" =>
        IF Len(ret.arg) # 32
        THEN ret.err = "ErrInvalidKey" /\ h[ret.inst].isnil
        ELSE /\ ret.err = "nil"
             /\ ~h[ret.inst].isnil
             /\ h[ret.inst].key = ret.arg
             /\ h[ret.inst].state = poly1305_init(ret.arg)

\* A key one byte too long was refused.
NewRefusedLongKey ==
    ret.op = "New" /\ Len(ret.arg) = 33 /\ ret.err = "ErrInvalidKey" /\ h[ret.inst].isnil

ChunkingInvariance ==
    (ret.op = "Sum" /\ ret.arg = <<>> /\ ret.first) =>
        ret.out = OneShot(h[ret.inst].key, written[ret.inst])

\* "Hello world!" was written twice, the second chunk straddling the block
\* boundary, and then summed.
SumAfterStraddlingChunks ==
    /\ ret.op = "Sum" /\ ret.arg = <<>> /\ ret.first
    /\ written[ret.inst] = Hello \o Hello
    /\ sumAt[ret.inst] = 24

\* C4: Sum(nil), the first after New or Reset, is the reference tag of the key
\* and the bytes written; the empty message gives s; the two test vectors are
\* reproduced.
SumIsReferenceTag ==
    (ret.op = "Sum" /\ ret.arg = <<>> /\ ret.first) =>
        LET key == newKey[ret.inst]
            M   == written[ret.inst]
        IN  /\ ret.out = RefTag(key, M)
            /\ M = <<>> => ret.out = SubSeq(key, 17, 32)
            /\ (key = TestKey /\ M = Zero32) => ret.out = Tag1
            /\ (key = TestKey /\ M = Hello) => ret.out = Tag2

\* The first test vector was run and gave its tag.
FirstVectorSummed ==
    /\ ret.op = "Sum" /\ ret.arg = <<>> /\ ret.first
    /\ newKey[ret.inst] = TestKey /\ written[ret.inst] = Zero32
    /\ ret.out = Tag1

\* C5: Sum(p) returns p followed by exactly 16 tag bytes: len(p) + 16 bytes,
\* the first len(p) of them p, the last 16 the tag Sum(nil) returns (for the
\* first Sum, the tag of the bytes written).
SumAppendsTag ==
    ret.op = "Sum" =>
        /\ Len(ret.out) = Len(ret.arg) + 16
        /\ SubSeq(ret.out, 1, Len(ret.arg)) = ret.arg
        /\ ret.first => SubSeq(ret.out, Len(ret.arg) + 1, Len(ret.out))
                           = OneShot(h[ret.inst].key, written[ret.inst])

\* C6: Reset leaves acc = 0, the buffer empty and r, s as derived from the key
\* bytes given to New, whatever the caller did to its slice since and whatever
\* Write and Sum did before; and after a Reset, Write(M); Sum(nil) gives the
\* tag of a new hash with that key.
ResetRestoresInitialState ==
    /\ ret.op = "Reset" =>
           /\ h[ret.inst].key = newKey[ret.inst]
           /\ h[ret.inst].state.h = Zeros(17)
           /\ h[ret.inst].state.buffer = <<>>
           /\ h[ret.inst].state.r = Vec([j \in 1..16 |-> ClampByte(j, newKey[ret.inst][j])], 16)
           /\ h[ret.inst].state.pad = SubSeq(newKey[ret.inst], 17, 32)
    /\ (ret.op = "Sum" /\ ret.arg = <<>> /\ ret.first /\ wasReset[ret.inst]) =>
           ret.out = OneShot(newKey[ret.inst], written[ret.inst])

\* A hash was Reset with a partial block buffered and after the caller had
\* overwritten the key slice it gave to New.
ResetAfterPartialBlock ==
    /\ ret.op = "Reset" /\ ret.pre \in 1..15
    /\ callerKey[ret.inst] # newKey[ret.inst]

WriteNeverFails ==
    ret.op = "Write" =>
        /\ ret.n = Len(ret.arg)
        /\ ret.err = "nil"
        /\ Len(h[ret.inst].state.buffer) = (ret.pre + Len(ret.arg)) % 16
        /\ sumAt[ret.inst] = -1 =>
               LET M == written[ret.inst]
               IN  h[ret.inst].state.buffer = SubSeq(M, Len(M) - (Len(M) % 16) + 1, Len(M))

\* A Write of two blocks at once, after a Sum.
WriteOfTwoBlocks ==
    ret.op = "Write" /\ ret.arg = Zero32 /\ ret.n = 32 /\ sumAt[ret.inst] # -1

\* What a hash's own key and the bytes written to it lead to, when no Sum has
\* been taken since New or Reset; and the first Sum returns their tag.
OwnKeyAndBytesDecide ==
    /\ \A i \in Inst : ~h[i].isnil =>
           /\ h[i].key = newKey[i]
           /\ sumAt[i] = -1 =>
                  h[i].state = WriteCall(poly1305_init(newKey[i]), written[i]).state
    /\ (ret.op = "Sum" /\ ret.first) =>
           ret.out = OneShot(newKey[ret.inst], written[ret.inst])
    /\ \A i, k \in Inst :
           (/\ ~h[i].isnil /\ ~h[k].isnil /\ sumAt[i] = -1 /\ sumAt[k] = -1
            /\ newKey[i] = newKey[k] /\ written[i] = written[k]) =>
               h[i].state = h[k].state

\* A call on one hash leaves every other hash as it was.
OthersUntouched ==
    \A i \in Inst : i # ret'.inst => h'[i] = h[i]

AccBelow2p130 ==
    \A i \in Inst : ~h[i].isnil =>
        /\ Below2p130(h[i].state.h)
        /\ Below2p130(FinalAcc(h[i].state))

\* A block was absorbed whose first folding step left 2^130 or more.
AbsorbedWithSecondFold ==
    \E i \in Inst :
        /\ ~h[i].isnil
        /\ sumAt[i] = -1
        /\ written[i] = Hello \o Hello
        /\ ~Below2p130(Fold(MulLimbs(AddLimbs(Zeros(17), BlockValue(SubSeq(written[i], 1, 16)), 17),
                                     h[i].state.r)))
        /\ h[i].state.h # Zeros(17)
====
